---- MODULE Spec2Model ----
(***************************************************************************)
(* A model of extra/lectic-usage.py: the usage recorder (--hook), alone    *)
(* and run by concurrent processes, the price resolver, the bucket reducer *)
(* and the bar renderer.                                                   *)
(*                                                                         *)
(* JSON values are tagged records: a mapping is [t |-> "obj", d |-> f]     *)
(* with f a function whose DOMAIN is the set of keys present, an integer   *)
(* is [t |-> "int", n |-> i], anything else (string, list, null, ...) is   *)
(* [t |-> "other"].  A timestamp string is represented by the fields that  *)
(* isoformat() prints: the wall-clock minute count and the UTC offset.     *)
(* Strings that the code inspects character by character (model ids,       *)
(* price-table keys) are sequences of one-character strings.               *)
(***************************************************************************)
EXTENDS Integers, Sequences, FiniteSets, TLC

VARIABLES
    file,      \* sequential recorder: content of $LECTIC_DATA/usage.json
    now,       \* the wall clock, in half hours since the epoch (UTC)
    exitCode,  \* exit code of the last invocation of main (-1: none yet)
    base,      \* content of usage.json when the behaviour started
    acc,       \* per (hour key, model): what successful invocations recorded
    ts1, ts2,  \* hour bucketing: two datetime arguments of _hour_bucket_iso
    keys,      \* hour bucketing: the two keys returned, <<>> before the calls
    prices,    \* the "prices" list of prices.json
    query,     \* price resolution: the model id looked up
    found,     \* price resolution: what _find_price returned
    graph,     \* the report: what the last _print_graph computed
    dir,       \* concurrent recorders: the data directory, name -> inode
    inodes,    \* concurrent recorders: the content of each inode
    procs,     \* concurrent recorders: where each process is in main()
    observed   \* concurrent recorders: what the reader last read

recVars == <<file, now, exitCode, base, acc>>
hourVars == <<ts1, ts2, keys>>
priceVars == <<prices, query, found>>
graphVars == <<graph>>
concVars == <<dir, inodes, procs, observed>>
vars == <<recVars, hourVars, priceVars, graphVars, concVars>>

\* what the actions of one part leave alone
notRec == <<hourVars, priceVars, graphVars, concVars>>
notHour == <<recVars, priceVars, graphVars, concVars>>
notPrice == <<recVars, hourVars, graphVars, concVars>>
notGraph == <<hourVars, priceVars, concVars>>
notConc == <<recVars, hourVars, priceVars, graphVars>>

(***************************************************************************)
(* Bounds of the model.                                                    *)
(***************************************************************************)
MaxEvents == 2
MaxGraphEvents == 3
MaxNow == 2
MaxQuarter == 7
MaxLen == 2
NProcs == 2
MaxRuns == 2
NChunks == 2

(***************************************************************************)
(* JSON values.                                                            *)
(***************************************************************************)
Obj(f) == [t |-> "obj", d |-> f]
Int_(i) == [t |-> "int", n |-> i]
Other == [t |-> "other"]
EmptyFn == [x \in {} |-> Other]
EmptyObj == Obj(EmptyFn)
IsDict(v) == v.t = "obj"

\* dict.get(key, default)
Get(v, key, default) == IF key \in DOMAIN v.d THEN v.d[key] ELSE default

\* dict[key] = val
Put(v, key, val) ==
    Obj([k \in (DOMAIN v.d) \cup {key} |-> IF k = key THEN val ELSE v.d[k]])

\* int(x) succeeds on a stored integer; on the other values of the model
\* (a list, null, a non-numeric string) it raises TypeError or ValueError
IsInt(v) == v.t = "int"

Unknown == <<"u", "n", "k", "n", "o", "w", "n">>

(***************************************************************************)
(* Time.  A datetime is [loc |-> wall-clock minutes, off |-> UTC offset in *)
(* minutes]; the instant it denotes is loc - off minutes after the epoch.  *)
(***************************************************************************)
HalfHour == 30
MinutesPerHour == 60

Utc(dt) == dt.loc - dt.off

\* datetime.now(timezone.utc)
NowUtc(clock) == [loc |-> clock * HalfHour, off |-> 0]

\* datetime.isoformat(): the string is determined by the printed fields
IsoFormat(dt) == [ok |-> TRUE, loc |-> dt.loc, off |-> dt.off]

\* ts.replace(minute=0, second=0, microsecond=0).isoformat()
HourBucketIso(ts) ==
    IsoFormat([loc |-> ts.loc - (ts.loc % MinutesPerHour), off |-> ts.off])

NowIsoUtc(clock) == IsoFormat(NowUtc(clock))

(***************************************************************************)
(* Environment variables.  A raw value is unset, the empty string, a       *)
(* string int() rejects, or a decimal numeral.                             *)
(***************************************************************************)
Unset == [k |-> "unset", n |-> 0]
EmptyStr == [k |-> "empty", n |-> 0]
Garbage == [k |-> "text", n |-> 0]
Numeral(i) == [k |-> "num", n |-> i]

\* _parse_int_env
ParseIntEnv(raw) == IF raw.k = "num" THEN raw.n ELSE 0

\* os.environ.get("LECTIC_MODEL") or "unknown"; raw is a string or <<>>
ModelOf(raw) == IF raw = <<>> THEN Unknown ELSE raw

\* Tokens(input, output, cached)
Tokens(i, o, c) == [input |-> i, output |-> o, cached |-> c]

\* Tokens.total
Total(tk) == tk.input + tk.output

(***************************************************************************)
(* The recorder.  Operators that can raise return [ok |-> BOOLEAN, v |-> ];*)
(* ok = FALSE stands for the exception main() turns into exit code 1.      *)
(***************************************************************************)
Absent == [t |-> "absent"]
Doc(v) == [t |-> "doc", v |-> v]
Stamp(clock) == [t |-> "ts", s |-> NowIsoUtc(clock)]

TokenFields == {"input_tokens", "output_tokens", "cached_tokens"}
CountFields == TokenFields \cup {"turns"}

Raise == [ok |-> FALSE, v |-> Other]
Return(v) == [ok |-> TRUE, v |-> v]

\* the amount _bump_model adds to a field
IncOf(inc, f) ==
    CASE f = "input_tokens" -> inc.input
      [] f = "output_tokens" -> inc.output
      [] f = "cached_tokens" -> inc.cached
      [] f = "turns" -> 1

\* a recorder that stores the increment instead of adding it
BumpedEntryOverwrite(entry, inc, clock) ==
    Obj([k \in (DOMAIN entry.d) \cup CountFields \cup {"updated_at"} |->
            IF k \in CountFields THEN Int_(IncOf(inc, k))
            ELSE IF k = "updated_at" THEN Stamp(clock)
            ELSE entry.d[k]])

\* _bump_model: the entry written back for the model
BumpedEntry(entry, inc, clock) ==
    Obj([k \in (DOMAIN entry.d) \cup CountFields \cup {"updated_at"} |->
            IF k \in CountFields
            THEN Int_(Get(entry, k, Int_(0)).n + IncOf(inc, k))
            ELSE IF k = "updated_at" THEN Stamp(clock)
            ELSE entry.d[k]])

\* _bump_model(models, model, inc)
BumpModel(models, model, inc, clock) ==
    LET raw == Get(models, model, Other)
        entry == IF IsDict(raw) THEN raw ELSE EmptyObj
    IN IF \E k \in CountFields : ~IsInt(Get(entry, k, Int_(0)))
       THEN Raise
       ELSE Return(Put(models, model, BumpedEntry(entry, inc, clock)))

\* a recorder that replaces a non-object "models" by {} instead of raising
BumpHourCoerce(hourly, hour, model, inc, clock) ==
    LET raw == Get(hourly, hour, Other)
        hour_entry == IF IsDict(raw) THEN raw ELSE EmptyObj
        models_raw == Get(hour_entry, "models", EmptyObj)
        models == IF IsDict(models_raw) THEN models_raw ELSE EmptyObj
        bumped == BumpModel(models, model, inc, clock)
    IN IF ~bumped.ok
       THEN Raise
       ELSE Return(Put(hourly, hour,
                Put(Put(hour_entry, "models", bumped.v),
                    "updated_at", Stamp(clock))))

\* _bump_hour(hourly, hour, model, inc)
BumpHour(hourly, hour, model, inc, clock) ==
    LET raw == Get(hourly, hour, Other)
        hour_entry == IF IsDict(raw) THEN raw ELSE EmptyObj
        models_raw == Get(hour_entry, "models", EmptyObj)
    IN IF ~IsDict(models_raw)
       THEN Raise
       ELSE LET bumped == BumpModel(models_raw, model, inc, clock)
            IN IF ~bumped.ok
               THEN Raise
               ELSE Return(Put(hourly, hour,
                        Put(Put(hour_entry, "models", bumped.v),
                            "updated_at", Stamp(clock))))

\* _load_json(path): an absent file is {}, a document that is not a JSON
\* object (or not JSON at all) raises
LoadJson(f) ==
    IF f.t = "absent" THEN Return(EmptyObj)
    ELSE IF f.t # "doc" THEN Raise
    ELSE IF ~IsDict(f.v) THEN Raise
    ELSE Return(f.v)

\* the environment of one invocation
Env(model, i, o, c) == [model |-> model, input |-> i, output |-> o, cached |-> c]

\* _record_hook_usage up to the write: the document handed to
\* _atomic_write_json, or the exception
HookPayload(f, env, clock) ==
    LET model == ModelOf(env.model)
        inc == Tokens(ParseIntEnv(env.input), ParseIntEnv(env.output),
                      ParseIntEnv(env.cached))
        db == LoadJson(f)
    IN IF ~db.ok THEN Raise
       ELSE LET hourly_raw == Get(db.v, "hourly", EmptyObj)
            IN IF ~IsDict(hourly_raw) THEN Raise
               ELSE LET bumped == BumpHour(hourly_raw, HourBucketIso(NowUtc(clock)),
                                           model, inc, clock)
                    IN IF ~bumped.ok THEN Raise
                       ELSE Return(Put(Put(db.v, "hourly", bumped.v),
                                       "updated_at", Stamp(clock)))

\* _atomic_write_json followed by "return 0", or the exception caught by
\* main(): [code, file] is the exit code and usage.json afterwards.  With a
\* single process the temporary file is written in full and renamed.
RecordHookUsage(f, env, clock) ==
    LET payload == HookPayload(f, env, clock)
    IN IF payload.ok
       THEN [code |-> 0, file |-> Doc(payload.v)]
       ELSE [code |-> 1, file |-> f]

(***************************************************************************)
(* The sequential recorder: one invocation of "lectic usage --hook" at a   *)
(* time, the clock advancing between invocations.                          *)
(***************************************************************************)
RawModels == {<<>>, <<"a">>}

\* the values of TOKEN_USAGE_INPUT, TOKEN_USAGE_OUTPUT, TOKEN_USAGE_CACHED:
\* nothing usable, an ordinary turn, a turn that reports more cached than
\* input tokens, and a turn that reports a negative count
RawTriples ==
    { <<Unset, EmptyStr, Garbage>>,
      <<Numeral(2), Numeral(1), Numeral(1)>>,
      <<Numeral(1), Numeral(0), Numeral(2)>>,
      <<Numeral(-1), Numeral(1), Numeral(0)>> }
Envs == {Env(m, t[1], t[2], t[3]) : m \in RawModels, t \in RawTriples}

Clocks == 0..MaxNow
HourKeys == {HourBucketIso(NowUtc(c)) : c \in Clocks}
GraphModels == {<<>>, <<"a">>, <<"A">>, <<"a", "B">>}
Models == {ModelOf(m) : m \in RawModels \cup GraphModels}
Cells == HourKeys \X Models

ZeroAcc == [input_tokens |-> 0, output_tokens |-> 0, cached_tokens |-> 0,
            turns |-> 0]
TotalTurns(a) ==
    LET RECURSIVE Sum(_)
        Sum(S) == IF S = {} THEN 0
                  ELSE LET x == CHOOSE y \in S : TRUE
                       IN a[x].turns + Sum(S \ {x})
    IN Sum(Cells)

\* a usage record as the recorder writes it
UsageRec(i, o, c, n) ==
    Obj([k \in CountFields \cup {"updated_at"} |->
            CASE k = "input_tokens" -> Int_(i)
              [] k = "output_tokens" -> Int_(o)
              [] k = "cached_tokens" -> Int_(c)
              [] k = "turns" -> Int_(n)
              [] k = "updated_at" -> Stamp(0)])

Hour0 == HourBucketIso(NowUtc(0))
A == <<"a">>
WithHourly(h) == Doc(Obj([k \in {"hourly"} |-> h]))
WithHour0(e) == WithHourly(Obj([k \in {Hour0} |-> e]))
WithModels(m) == WithHour0(Obj([k \in {"models"} |-> m]))
WithUsage(u) == WithModels(Obj([k \in {A} |-> u]))

\* the documents usage.json may hold when the recorder is first run: none,
\* what the recorder wrote earlier, or something else put there
StartFiles ==
    { Absent,
      Doc(Other),
      Doc(EmptyObj),
      WithHourly(Other),
      WithHour0(Other),
      WithHour0(EmptyObj),
      WithModels(Other),
      WithUsage(Other),
      WithUsage(EmptyObj),
      WithUsage(Obj([k \in {"input_tokens"} |-> Other])),
      WithUsage(UsageRec(2, 1, 1, 1)) }

RecInit ==
    /\ file \in StartFiles
    /\ now = 0
    /\ exitCode = -1
    /\ base = file
    /\ acc = [x \in Cells |-> ZeroAcc]

EmptyInit ==
    /\ file = Absent
    /\ now = 0
    /\ exitCode = -1
    /\ base = file
    /\ acc = [x \in Cells |-> ZeroAcc]

\* time passes
Tick ==
    /\ now < MaxNow
    /\ now' = now + 1
    /\ UNCHANGED <<file, exitCode, base, acc>>
    /\ UNCHANGED notRec

\* main(["--hook"]) under environment env
RecordHook(env) ==
    LET r == RecordHookUsage(file, env, now)
        cell == <<HourBucketIso(NowUtc(now)), ModelOf(env.model)>>
        inc == Tokens(ParseIntEnv(env.input), ParseIntEnv(env.output),
                      ParseIntEnv(env.cached))
    IN /\ file' = r.file
       /\ exitCode' = r.code
       /\ acc' = IF r.code = 0
                 THEN [acc EXCEPT ![cell] =
                          [k \in CountFields |-> @[k] + IncOf(inc, k)]]
                 ELSE acc
       /\ UNCHANGED <<now, base>>
       /\ UNCHANGED notRec

Hook ==
    /\ TotalTurns(acc) < MaxEvents
    /\ \E env \in Envs : RecordHook(env)

RecNext == Tick \/ Hook

(***************************************************************************)
(* Properties of the recorder.                                             *)
(***************************************************************************)
\* v[key] when v is a mapping that has the key
Child(v, key) == IF v.t = "obj" /\ key \in DOMAIN v.d THEN v.d[key] ELSE Other

\* the usage record of a cell in a file, Other when there is none
StoredRecord(f, cell) ==
    LET top == IF f.t = "doc" THEN f.v ELSE Other
    IN Child(Child(Child(Child(top, "hourly"), cell[1]), "models"), cell[2])

\* a counter of a cell's record, 0 when the record or the counter is absent
StoredField(f, cell, k) ==
    LET x == Child(StoredRecord(f, cell), k)
    IN IF x.t = "int" THEN x.n ELSE 0

\* C1: after n successful recordings for a model in an hour bucket, each
\* token counter of that record is its value at the start (0 if the record
\* was absent) plus the sum of the increments, and turns has grown by n;
\* zero increments are among the recorded ones and add only a turn.
C1_Additivity ==
    \A cell \in Cells :
        acc[cell].turns > 0 =>
            \A k \in CountFields :
                StoredField(file, cell, k) =
                    StoredField(base, cell, k) + acc[cell][k]

\* two recordings for one model in one hour, on top of a stored record
C1_Witness ==
    \E cell \in Cells :
        /\ acc[cell].turns = 2
        /\ acc[cell].input_tokens = 4
        /\ StoredField(base, cell, "input_tokens") = 2
        /\ StoredField(file, cell, "turns") = 3

\* the shapes the recorder must refuse at clock reading c
Rejected(f, c) ==
    /\ f.t = "doc"
    /\ \/ ~IsDict(f.v)
       \/ /\ "hourly" \in DOMAIN f.v.d
          /\ ~IsDict(f.v.d["hourly"])
       \/ LET e == Child(Child(f.v, "hourly"), HourBucketIso(NowUtc(c)))
          IN /\ IsDict(e)
             /\ "models" \in DOMAIN e.d
             /\ ~IsDict(e.d["models"])

\* C9: an invocation that finds no usage file records into an empty store;
\* one that finds a top level, an 'hourly' or a current-hour 'models' that is
\* not a mapping exits with code 1 and leaves usage.json as it was.
C9_RejectionWithoutWrite ==
    [][ now' = now =>
          /\ Rejected(file, now) => (exitCode' = 1 /\ file' = file)
          /\ file = Absent =>
                /\ exitCode' = 0
                /\ file'.t = "doc"
                /\ DOMAIN Child(file'.v, "hourly").d = {HourBucketIso(NowUtc(now))}
                /\ \E m \in Models :
                      /\ DOMAIN Child(Child(Child(file'.v, "hourly"),
                                  HourBucketIso(NowUtc(now))), "models").d = {m}
                      /\ StoredField(file', <<HourBucketIso(NowUtc(now)), m>>,
                                     "turns") = 1
      ]_recVars

\* an invocation has been refused for the 'models' of the current hour
C9_Witness ==
    /\ exitCode = 1
    /\ file = WithModels(Other)
    /\ Rejected(file, now)

\* every counter of every stored record is non-negative
NonNegative(f) ==
    \A cell \in Cells : \A k \in TokenFields : StoredField(f, cell, k) >= 0

\* C3: from an empty store, every stored token counter stays >= 0 and no
\* recording decreases a token counter.
C3_TokenCounterInvariant ==
    [][ /\ NonNegative(file')
        /\ \A cell \in Cells : \A k \in TokenFields :
              StoredField(file', cell, k) >= StoredField(file, cell, k)
      ]_recVars

(***************************************************************************)
(* Hour bucketing as a function of its argument: _hour_bucket_iso(ts) for  *)
(* two aware datetimes, each with its own UTC offset.                      *)
(***************************************************************************)
QuarterHour == 15
Offsets == {-60, 0, 330}
Datetimes == {[loc |-> q * QuarterHour, off |-> o] : q \in 0..MaxQuarter,
                                                     o \in Offsets}

HourInit ==
    /\ ts1 \in Datetimes
    /\ ts2 \in Datetimes
    /\ keys = <<>>

HourIdle ==
    /\ ts1 = [loc |-> 0, off |-> 0]
    /\ ts2 = [loc |-> 0, off |-> 0]
    /\ keys = <<>>

\* _hour_bucket_iso(ts1) and _hour_bucket_iso(ts2)
BucketBoth ==
    /\ keys = <<>>
    /\ keys' = <<HourBucketIso(ts1), HourBucketIso(ts2)>>
    /\ UNCHANGED <<ts1, ts2>>
    /\ UNCHANGED notHour

HourNext == BucketBoth

\* the UTC hour an instant lies in
UtcHour(dt) == Utc(dt) \div MinutesPerHour

\* C8: two instants of one UTC hour, whatever offsets their values carry,
\* get the same key, and the key denotes the start of that UTC hour, with
\* minute zero.
C8_HourBucketTruncation ==
    (keys # <<>> /\ UtcHour(ts1) = UtcHour(ts2)) =>
        /\ keys[1] = keys[2]
        /\ \A i \in 1..2 :
              /\ keys[i].loc % MinutesPerHour = 0
              /\ Utc(keys[i]) = UtcHour(ts1) * MinutesPerHour

(***************************************************************************)
(* The price resolver.  Strings are sequences of characters.               *)
(***************************************************************************)
LowerAlnum ==
    {"a", "b", "c", "d", "e", "f", "g", "h", "i", "j", "k", "l", "m", "n",
     "o", "p", "q", "r", "s", "t", "u", "v", "w", "x", "y", "z",
     "0", "1", "2", "3", "4", "5", "6", "7", "8", "9"}

\* str.lower() on one character
Lower(c) ==
    CASE c = "A" -> "a"
      [] c = "B" -> "b"
      [] OTHER -> c

\* re.sub(r"[^a-z0-9]+", "-", s.lower()): every run of other characters
\* becomes one hyphen
RECURSIVE Collapse(_, _)
Collapse(s, inRun) ==
    IF s = <<>> THEN <<>>
    ELSE LET c == Lower(Head(s))
         IN IF c \in LowerAlnum
            THEN <<c>> \o Collapse(Tail(s), FALSE)
            ELSE IF inRun THEN Collapse(Tail(s), TRUE)
                 ELSE <<"-">> \o Collapse(Tail(s), TRUE)

\* str.strip("-")
RECURSIVE StripHyphens(_)
StripHyphens(s) ==
    IF s = <<>> THEN s
    ELSE IF Head(s) = "-" THEN StripHyphens(Tail(s))
    ELSE IF s[Len(s)] = "-" THEN StripHyphens(SubSeq(s, 1, Len(s) - 1))
    ELSE s

\* normalize(s) of _find_price
Normalize(s) == StripHyphens(Collapse(s, FALSE))

\* str.startswith
StartsWith(s, prefix) ==
    /\ Len(prefix) <= Len(s)
    /\ SubSeq(s, 1, Len(prefix)) = prefix

\* the characters of normalized strings in code point order
CodeOrder ==
    <<"-", "0", "1", "2", "3", "4", "5", "6", "7", "8", "9",
      "a", "b", "c", "d", "e", "f", "g", "h", "i", "j", "k", "l", "m", "n",
      "o", "p", "q", "r", "s", "t", "u", "v", "w", "x", "y", "z">>
Ord(c) == CHOOSE i \in 1..Len(CodeOrder) : CodeOrder[i] = c

\* s < t for Python strings
RECURSIVE StrLess(_, _)
StrLess(s, t) ==
    IF t = <<>> THEN FALSE
    ELSE IF s = <<>> THEN TRUE
    ELSE IF Head(s) = Head(t) THEN StrLess(Tail(s), Tail(t))
    ELSE Ord(Head(s)) < Ord(Head(t))

\* SequenceMatcher.find_longest_match over the whole of a and b: the longest
\* common block, the earliest in a among the longest, then the earliest in b
LongestMatch(a, b) ==
    LET Blocks == {blk \in (1..Len(a)) \X (1..Len(b)) \X (1..Len(a)) :
                      /\ blk[1] + blk[3] - 1 <= Len(a)
                      /\ blk[2] + blk[3] - 1 <= Len(b)
                      /\ SubSeq(a, blk[1], blk[1] + blk[3] - 1) =
                            SubSeq(b, blk[2], blk[2] + blk[3] - 1)}
    IN IF Blocks = {} THEN <<1, 1, 0>>
       ELSE CHOOSE x \in Blocks :
               \A y \in Blocks :
                  \/ x[3] > y[3]
                  \/ x[3] = y[3] /\ x[1] < y[1]
                  \/ x[3] = y[3] /\ x[1] = y[1] /\ x[2] <= y[2]

\* the number of matched characters SequenceMatcher.get_matching_blocks
\* finds: the longest block, then the same to its left and to its right
RECURSIVE Matched(_, _)
Matched(a, b) ==
    IF a = <<>> \/ b = <<>> THEN 0
    ELSE LET m == LongestMatch(a, b)
         IN IF m[3] = 0 THEN 0
            ELSE m[3]
                 + Matched(SubSeq(a, 1, m[1] - 1), SubSeq(b, 1, m[2] - 1))
                 + Matched(SubSeq(a, m[1] + m[3], Len(a)),
                           SubSeq(b, m[2] + m[3], Len(b)))

\* SequenceMatcher(a = x, b = word).ratio() >= 0.6, ratio being 2*M/T
\* (1.0 when both are empty)
Close(x, word) ==
    IF Len(x) + Len(word) = 0 THEN TRUE
    ELSE 10 * Matched(x, word) >= 3 * (Len(x) + Len(word))

\* ratio(x, word) < ratio(y, word)
RatioLess(x, y, word) ==
    IF Len(x) + Len(word) = 0 THEN FALSE
    ELSE IF Len(y) + Len(word) = 0 THEN TRUE
    ELSE Matched(x, word) * (Len(y) + Len(word))
            < Matched(y, word) * (Len(x) + Len(word))

\* a value of the "prices" list: id is <<>> when missing or empty,
\* input_cached.has is FALSE when the item has none
Item(id, i, o, has, c) ==
    [id |-> id, input |-> i, output |-> o, input_cached |-> [has |-> has, v |-> c]]

\* the record built for an item (lines 293-301)
PriceRecord(item) ==
    [input |-> item.input, output |-> item.output,
     input_cached |-> IF item.input_cached.has THEN item.input_cached.v
                      ELSE item.input]

\* d[key] = val on an insertion-ordered dict, kept as a sequence of pairs
DictSet(d, key, val) ==
    IF \E i \in 1..Len(d) : d[i][1] = key
    THEN [i \in 1..Len(d) |-> IF d[i][1] = key THEN <<key, val>> ELSE d[i]]
    ELSE Append(d, <<key, val>>)

DictHas(d, key) == \E i \in 1..Len(d) : d[i][1] = key
DictGet(d, key) == d[CHOOSE i \in 1..Len(d) : d[i][1] = key][2]

\* the loop that fills price_map from prices.json
RECURSIVE LoadPrices(_, _)
LoadPrices(items, d) ==
    IF items = <<>> THEN d
    ELSE LET item == Head(items)
         IN IF item.id = <<>>
            THEN LoadPrices(Tail(items), d)
            ELSE LoadPrices(Tail(items), DictSet(d, item.id, PriceRecord(item)))

\* norm_keys = {normalize(k): k for k in price_map}
RECURSIVE NormKeys(_, _)
NormKeys(pm, d) ==
    IF pm = <<>> THEN d
    ELSE NormKeys(Tail(pm), DictSet(d, Normalize(Head(pm)[1]), Head(pm)[1]))

NoneStr == <<"None">>
NoPrice == [none |-> TRUE]

\* a prefix loop that keeps the shortest prefix instead of the longest
RECURSIVE PrefixLoopShortest(_, _, _, _)
PrefixLoopShortest(nk, norm_model, best_match, best_len) ==
    IF nk = <<>> THEN best_match
    ELSE IF /\ StartsWith(norm_model, Head(nk)[1])
            /\ (best_len = -1 \/ Len(Head(nk)[1]) < best_len)
         THEN PrefixLoopShortest(Tail(nk), norm_model, Head(nk)[2], Len(Head(nk)[1]))
         ELSE PrefixLoopShortest(Tail(nk), norm_model, best_match, best_len)

\* the loop of lines 221-226
RECURSIVE PrefixLoop(_, _, _, _)
PrefixLoop(nk, norm_model, best_match, best_len) ==
    IF nk = <<>> THEN best_match
    ELSE IF /\ StartsWith(norm_model, Head(nk)[1])
            /\ Len(Head(nk)[1]) > best_len
         THEN PrefixLoop(Tail(nk), norm_model, Head(nk)[2], Len(Head(nk)[1]))
         ELSE PrefixLoop(Tail(nk), norm_model, best_match, best_len)

\* difflib.get_close_matches(word, possibilities, n=1, cutoff=0.6): the
\* possibility of greatest (ratio, string), NoneStr when the list is empty
CloseMatch(word, nk) ==
    LET Cands == {i \in 1..Len(nk) : Close(nk[i][1], word)}
    IN IF Cands = {} THEN NoneStr
       ELSE nk[CHOOSE i \in Cands :
                  \A j \in Cands \ {i} :
                     \/ RatioLess(nk[j][1], nk[i][1], word)
                     \/ /\ ~RatioLess(nk[i][1], nk[j][1], word)
                        /\ StrLess(nk[j][1], nk[i][1])][1]

\* _find_price(price_map, model)
FindPrice(price_map, model) ==
    IF price_map = <<>> THEN NoPrice
    ELSE IF DictHas(price_map, model) THEN DictGet(price_map, model)
    ELSE LET norm_model == Normalize(model)
             norm_keys == NormKeys(price_map, <<>>)
         IN IF DictHas(norm_keys, norm_model)
            THEN DictGet(price_map, DictGet(norm_keys, norm_model))
            ELSE LET best_match == PrefixLoop(norm_keys, norm_model, NoneStr, -1)
                 IN IF best_match # NoneStr /\ best_match # <<>>
                    THEN DictGet(price_map, best_match)
                    ELSE LET close == CloseMatch(norm_model, norm_keys)
                         IN IF close # NoneStr
                            THEN DictGet(price_map, DictGet(norm_keys, close))
                            ELSE NoPrice

(***************************************************************************)
(* Price resolution as a function of the table and the model id.           *)
(***************************************************************************)
Alphabet == {"a", "B", "-"}

RECURSIVE StringsUpTo(_)
StringsUpTo(n) ==
    IF n = 0 THEN {<<>>}
    ELSE LET shorter == StringsUpTo(n - 1)
         IN shorter \cup {Append(s, c) : s \in shorter, c \in Alphabet}

Ids == StringsUpTo(MaxLen)
Queries == StringsUpTo(MaxLen + 1)
Pending == [pending |-> TRUE]

PriceInit ==
    /\ prices \in {<<Item(k1, 1, 1, FALSE, 0), Item(k2, 2, 2, FALSE, 0)>> :
                      k1 \in Ids, k2 \in Ids}
    /\ query \in Queries
    /\ found = Pending

PriceIdle ==
    /\ prices = <<>>
    /\ query = <<>>
    /\ found = Pending

\* the one table of the reports: a model priced 2 per input, 5 per output
\* and 0 per cached token
GraphPrices == <<Item(<<"a">>, 2 * 1000000, 5 * 1000000, TRUE, 0)>>

PricedIdle ==
    /\ prices = GraphPrices
    /\ query = <<>>
    /\ found = Pending

\* _find_price on the table loaded from prices.json
Resolve ==
    /\ found = Pending
    /\ found' = FindPrice(LoadPrices(prices, <<>>), query)
    /\ UNCHANGED <<prices, query>>
    /\ UNCHANGED notPrice

PriceNext == Resolve

\* the table _find_price is given, its keys, and the record of a key
Table == LoadPrices(prices, <<>>)
TableKeys == {Table[i][1] : i \in 1..Len(Table)}
PriceOfKey(k) == DictGet(Table, k)

ExactTier == query \in TableKeys
NormTier == \E k \in TableKeys : Normalize(k) = Normalize(query)
PrefixTier == \E k \in TableKeys : StartsWith(Normalize(query), Normalize(k))
FuzzyTier == \E k \in TableKeys : Close(Normalize(k), Normalize(query))

\* C6: the record returned is the one of the first tier that matches, in
\* the order exact key, equal normalized forms, longest normalized prefix,
\* best fuzzy match; the prefix tier picks a key of greatest normalized
\* length among those whose normalized form is a prefix of the normalized
\* query; not-found is returned only when no tier matches.
C6_TieredResolution ==
    found # Pending =>
        IF ExactTier THEN found = PriceOfKey(query)
        ELSE IF NormTier
        THEN \E k \in TableKeys :
                /\ Normalize(k) = Normalize(query)
                /\ found = PriceOfKey(k)
        ELSE IF PrefixTier
        THEN \E k \in TableKeys :
                /\ StartsWith(Normalize(query), Normalize(k))
                /\ \A j \in TableKeys :
                      StartsWith(Normalize(query), Normalize(j)) =>
                          Len(Normalize(j)) <= Len(Normalize(k))
                /\ found = PriceOfKey(k)
        ELSE IF FuzzyTier
        THEN \E k \in TableKeys :
                /\ Close(Normalize(k), Normalize(query))
                /\ \A j \in TableKeys :
                      ~RatioLess(Normalize(k), Normalize(j), Normalize(query))
                /\ found = PriceOfKey(k)
        ELSE found = NoPrice

\* the prefix tier has chosen the longer of two prefixes
C6_Witness ==
    /\ found # Pending
    /\ ~ExactTier /\ ~NormTier
    /\ \E k, j \in TableKeys :
          /\ StartsWith(Normalize(query), Normalize(k))
          /\ StartsWith(Normalize(query), Normalize(j))
          /\ Len(Normalize(j)) < Len(Normalize(k))
          /\ found = PriceOfKey(k)

(***************************************************************************)
(* The report: bucket reducer, cost projector and bar renderer.  The prices *)
(* of the reports are whole multiples of 1_000_000, so that every cost the *)
(* code computes is a whole number and its float arithmetic is exact; the  *)
(* lengths the code computes with float division and int() are then the    *)
(* quotients truncated towards zero.                                       *)
(***************************************************************************)
MinutesPerDay == 1440
DaysPerWeek == 7
Width == 40
PerMillion == 1000000

\* the first day of each month, in days since 2024-01-01 (a Monday)
MonthStarts == <<0, 31, 60, 91, 121, 152, 182, 213, 244, 274, 305, 335>>

Granularities == {"hour", "day", "week", "month"}

\* _get_bucket_key(dt, granularity): the key, as the number of the hour,
\* day, ISO week or month that the format prints
BucketKey(dt, granularity) ==
    LET day == dt.loc \div MinutesPerDay
    IN CASE granularity = "hour" -> dt.loc \div MinutesPerHour
         [] granularity = "day" -> day
         [] granularity = "week" -> (day \div DaysPerWeek) + 1
         [] granularity = "month" ->
               Cardinality({i \in 1..Len(MonthStarts) : MonthStarts[i] <= day})

\* sum of f over the finite set S
RECURSIVE SumFn(_, _)
SumFn(f, S) ==
    IF S = {} THEN 0
    ELSE LET x == CHOOSE y \in S : TRUE
         IN f[x] + SumFn(f, S \ {x})

\* int(n / d) for d # 0: Python's int() truncates towards zero
TruncDiv(n, d) ==
    LET an == IF n < 0 THEN -n ELSE n
        ad == IF d < 0 THEN -d ELSE d
        q == an \div ad
    IN IF (n < 0) = (d < 0) THEN q ELSE -q

\* re.search(pattern, model) for a pattern without metacharacters
Search(pattern, model) ==
    \E i \in 1..(Len(model) - Len(pattern) + 1) :
        SubSeq(model, i, i + Len(pattern) - 1) = pattern

\* the arguments of one report; filter is <<>> for none
Args(g, u, f, p) == [granularity |-> g, units |-> u, filter |-> f, price |-> p]

\* what the loop of lines 317-362 has accumulated: buckets and costs are
\* functions on the (bucket key, model) pairs that exist in the defaultdicts
NoSums == [ok |-> TRUE, buckets |-> <<>>, costs |-> <<>>]
ZeroCost == [input |-> 0, cached |-> 0, output |-> 0, total |-> 0]

\* the accumulators after "current.input += ..." for pair
AddTokens(buckets, pair, t_inc) ==
    LET cur == IF pair \in DOMAIN buckets THEN buckets[pair] ELSE Tokens(0, 0, 0)
        new == Tokens(cur.input + t_inc.input, cur.output + t_inc.output,
                      cur.cached + t_inc.cached)
    IN [q \in (DOMAIN buckets) \cup {pair} |-> IF q = pair THEN new ELSE buckets[q]]

\* lines 351-359
AddCost(costs, pair, t_inc, p) ==
    LET uncached == t_inc.input - t_inc.cached
        c_in == (uncached * p.input) \div PerMillion
        c_cached == (t_inc.cached * p.input_cached) \div PerMillion
        c_out == (t_inc.output * p.output) \div PerMillion
        cur == IF pair \in DOMAIN costs THEN costs[pair] ELSE ZeroCost
        new == [input |-> cur.input + c_in, cached |-> cur.cached + c_cached,
                output |-> cur.output + c_out,
                total |-> cur.total + (c_in + c_cached + c_out)]
    IN [q \in (DOMAIN costs) \cup {pair} |-> IF q = pair THEN new ELSE costs[q]]

\* a loop that gives up on the hour entry at the first usage value that is
\* not a mapping
RECURSIVE ReduceModelsStop(_, _, _, _, _, _)
ReduceModelsStop(todo, models, key, args, price_map, sums) ==
    IF todo = {} \/ ~sums.ok THEN sums
    ELSE LET model == CHOOSE m \in todo :
                          \A o \in todo : IsDict(models.d[m]) => IsDict(models.d[o])
             usage == models.d[model]
             rest == todo \ {model}
         IN IF ~IsDict(usage) THEN sums
            ELSE IF args.filter # <<>> /\ ~Search(args.filter, model)
            THEN ReduceModelsStop(rest, models, key, args, price_map, sums)
            ELSE IF \E k \in TokenFields : ~IsInt(Get(usage, k, Int_(0)))
            THEN [sums EXCEPT !.ok = FALSE]
            ELSE LET t_inc == Tokens(Get(usage, "input_tokens", Int_(0)).n,
                                     Get(usage, "output_tokens", Int_(0)).n,
                                     Get(usage, "cached_tokens", Int_(0)).n)
                     p == IF args.price THEN FindPrice(price_map, model) ELSE NoPrice
                     next == [ok |-> TRUE,
                              buckets |-> AddTokens(sums.buckets, <<key, model>>, t_inc),
                              costs |-> IF p # NoPrice
                                        THEN AddCost(sums.costs, <<key, model>>, t_inc, p)
                                        ELSE sums.costs]
                 IN ReduceModelsStop(rest, models, key, args, price_map, next)

\* the loop of lines 330-362 over the models of one hour entry
RECURSIVE ReduceModels(_, _, _, _, _, _)
ReduceModels(todo, models, key, args, price_map, sums) ==
    IF todo = {} \/ ~sums.ok THEN sums
    ELSE LET model == CHOOSE m \in todo : TRUE
             usage == models.d[model]
             rest == todo \ {model}
         IN IF ~IsDict(usage)
            THEN ReduceModels(rest, models, key, args, price_map, sums)
            ELSE IF args.filter # <<>> /\ ~Search(args.filter, model)
            THEN ReduceModels(rest, models, key, args, price_map, sums)
            ELSE IF \E k \in TokenFields : ~IsInt(Get(usage, k, Int_(0)))
            THEN [sums EXCEPT !.ok = FALSE]
            ELSE LET t_inc == Tokens(Get(usage, "input_tokens", Int_(0)).n,
                                     Get(usage, "output_tokens", Int_(0)).n,
                                     Get(usage, "cached_tokens", Int_(0)).n)
                     p == IF args.price THEN FindPrice(price_map, model) ELSE NoPrice
                     next == [ok |-> TRUE,
                              buckets |-> AddTokens(sums.buckets, <<key, model>>, t_inc),
                              costs |-> IF p # NoPrice
                                        THEN AddCost(sums.costs, <<key, model>>, t_inc, p)
                                        ELSE sums.costs]
                 IN ReduceModels(rest, models, key, args, price_map, next)

\* the loop of lines 317-362 over hourly.items()
RECURSIVE ReduceHours(_, _, _, _, _)
ReduceHours(todo, hourly, args, price_map, sums) ==
    IF todo = {} \/ ~sums.ok THEN sums
    ELSE LET time_str == CHOOSE s \in todo : TRUE
             data == hourly.d[time_str]
             rest == todo \ {time_str}
         IN IF ~IsDict(data)
            THEN ReduceHours(rest, hourly, args, price_map, sums)
            ELSE IF ~time_str.ok
            THEN ReduceHours(rest, hourly, args, price_map, sums)
            ELSE LET key == BucketKey([loc |-> time_str.loc, off |-> time_str.off],
                                      args.granularity)
                     models == Get(data, "models", EmptyObj)
                 IN IF ~IsDict(models)
                    THEN ReduceHours(rest, hourly, args, price_map, sums)
                    ELSE ReduceHours(rest, hourly, args, price_map,
                            ReduceModels(DOMAIN models.d, models, key, args,
                                         price_map, sums))

\* the magnitude of a (bucket, model) pair in the chosen mode, 0 when the
\* pair has none: Tokens.total, or the accumulated cost
PairValue(sums, args, pair) ==
    IF args.price
    THEN IF pair \in DOMAIN sums.costs THEN sums.costs[pair].total ELSE 0
    ELSE IF pair \in DOMAIN sums.buckets THEN Total(sums.buckets[pair]) ELSE 0

\* the pairs that carry a magnitude in the chosen mode
ModePairs(sums, args) ==
    IF args.price THEN DOMAIN sums.costs ELSE DOMAIN sums.buckets

\* sum(models_cost.values()) or sum(t.total for t in models_usage.values())
BucketTotal(sums, args, key) ==
    LET P == {p \in ModePairs(sums, args) : p[1] = key}
    IN SumFn([p \in P |-> PairValue(sums, args, p)], P)

\* sorted(buckets.keys())[-units:] when units > 0, else all of them
SortedKeys(sums, args) ==
    LET all == {p[1] : p \in DOMAIN sums.buckets}
    IN IF args.units > 0
       THEN {k \in all : Cardinality({j \in all : j > k}) < args.units}
       ELSE all

\* max_total after the loop of lines 375-386
MaxTotal(sums, args, sorted_keys) ==
    LET above == {BucketTotal(sums, args, k) : k \in sorted_keys} \cup {0}
    IN CHOOSE m \in above : \A o \in above : o <= m

\* all_models
AllModels(sums, args, sorted_keys) ==
    {p[2] : p \in {q \in ModePairs(sums, args) : q[1] \in sorted_keys}}

\* the lengths of one model's segment (lines 418-445), seg = 0 when the
\* model is passed over
Segment(sums, args, key, m, total, bar_len) ==
    LET pair == <<key, m>>
        val == PairValue(sums, args, pair)
        skipped == [seg |-> 0, out |-> 0, inp |-> 0, cached |-> 0]
    IN IF val = 0 THEN skipped
       ELSE LET model_seg_len == IF total > 0 THEN TruncDiv(val * bar_len, total)
                                 ELSE 0
                sub_out == IF args.price THEN sums.costs[pair].output
                           ELSE sums.buckets[pair].output
                sub_cached == IF args.price THEN sums.costs[pair].cached
                              ELSE sums.buckets[pair].cached
            IN IF model_seg_len = 0 THEN skipped
               ELSE LET out_len == TruncDiv(sub_out * model_seg_len, val)
                        cached_len == TruncDiv(sub_cached * model_seg_len, val)
                    IN [seg |-> model_seg_len, out |-> out_len,
                        inp |-> model_seg_len - out_len - cached_len,
                        cached |-> cached_len]

\* one line of the chart (lines 402-455): the bar length and the segments
\* of the models that are drawn
Bar(sums, args, key, max_total, sorted_models) ==
    LET total == BucketTotal(sums, args, key)
        bar_len == IF max_total > 0 THEN TruncDiv(total * Width, max_total) ELSE 0
        segs == [m \in sorted_models |-> Segment(sums, args, key, m, total, bar_len)]
        drawn == {m \in sorted_models : segs[m].seg # 0}
    IN [total |-> total, bar_len |-> bar_len, segs |-> [m \in drawn |-> segs[m]]]

\* "x" * n has max(n, 0) characters
Repeat(n) == IF n > 0 THEN n ELSE 0

\* the number of block characters in bar_str
Glyphs(bar) ==
    SumFn([m \in DOMAIN bar.segs |->
              Repeat(bar.segs[m].out) + Repeat(bar.segs[m].inp)
                  + Repeat(bar.segs[m].cached)],
          DOMAIN bar.segs)

NoGraph == [status |-> "none"]

\* lines 402-455: one line of the chart per bucket key
Chart(sums, args, sorted_keys, max_total, sorted_models) ==
    [code |-> 0,
     graph |-> [status |-> "drawn", args |-> args, sums |-> sums,
                bars |-> [k \in sorted_keys |->
                            Bar(sums, args, k, max_total, sorted_models)]]]

\* lines 364-400: the keys to show, the scale and the models of the legend
Scaled(sums, args, sorted_keys) ==
    IF sorted_keys = {}
    THEN [code |-> 0, graph |-> [status |-> "no data", args |-> args, sums |-> sums]]
    ELSE Chart(sums, args, sorted_keys, MaxTotal(sums, args, sorted_keys),
               AllModels(sums, args, sorted_keys))

\* after the loop of lines 317-362
Reduced(sums, args) ==
    IF ~sums.ok
    THEN [code |-> 1, graph |-> [status |-> "raised", args |-> args]]
    ELSE Scaled(sums, args, SortedKeys(sums, args))

\* lines 282-316, for the mapping under "hourly"
Hourly(hourly, args, items) ==
    IF ~IsDict(hourly) \/ DOMAIN hourly.d = {}
    THEN [code |-> 0, graph |-> [status |-> "no usage", args |-> args]]
    ELSE Reduced(ReduceHours(DOMAIN hourly.d, hourly, args,
                             IF args.price THEN LoadPrices(items, <<>>) ELSE <<>>,
                             NoSums),
                 args)

\* _print_graph(db, granularity, units, filter, show_price)
PrintGraphResult(db, args, items) == Hourly(Get(db, "hourly", EmptyObj), args, items)

\* main() after _load_json, without --hook
Loaded(db, args, items) ==
    IF ~db.ok
    THEN [code |-> 1, graph |-> [status |-> "raised", args |-> args]]
    ELSE PrintGraphResult(db.v, args, items)

\* main() without --hook: load usage.json and print the graph
Report(f, args, items) == Loaded(LoadJson(f), args, items)

(***************************************************************************)
(* Recording and reporting: turns are recorded from an empty store, and    *)
(* the report is printed in between.                                       *)
(***************************************************************************)
\* an ordinary turn, and a turn that reports more cached than input tokens
GraphTriples ==
    { <<Numeral(2), Numeral(1), Numeral(1)>>,
      <<Numeral(1), Numeral(0), Numeral(2)>> }
GraphEnvs == {Env(m, t[1], t[2], t[3]) : m \in GraphModels, t \in GraphTriples}

UnitsArgs == {0, 1}
FilterArgs == {<<>>, <<"a">>}
ArgsSet == {Args(g, u, f, p) : g \in Granularities, u \in UnitsArgs,
                               f \in FilterArgs, p \in BOOLEAN}

\* a behaviour records turns and ends with one report: a report changes
\* nothing that a later invocation reads
HookG ==
    /\ graph = NoGraph
    /\ TotalTurns(acc) < MaxGraphEvents
    /\ \E env \in GraphEnvs : RecordHook(env)

TickG == graph = NoGraph /\ Tick

\* main(argv) for a report
PrintGraph(args) ==
    /\ graph = NoGraph
    /\ \E r \in {Report(file, args, prices)} :
          /\ graph' = r.graph
          /\ exitCode' = r.code
    /\ UNCHANGED <<file, now, base, acc>>
    /\ UNCHANGED notGraph

ReportAny == \E args \in ArgsSet : PrintGraph(args)

GraphNext == TickG \/ HookG \/ ReportAny

(***************************************************************************)
(* Reporting on a store with malformed entries.                            *)
(***************************************************************************)
B == <<"a", "B">>
Week == [ok |-> TRUE, loc |-> DaysPerWeek * MinutesPerDay, off |-> 0]
Hour1 == [ok |-> TRUE, loc |-> MinutesPerHour, off |-> 0]
BadKey == [ok |-> FALSE, loc |-> 0, off |-> 0]
ReduceKeys == {Hour0, Hour1, Week, BadKey}

\* what an hourly key may map to: nothing (the key is absent), a value that
\* is no mapping, a mapping whose 'models' is no mapping, models one of
\* which is no mapping, and well-formed entries
EntryShapes ==
    { Other,
      Obj([k \in {"models"} |-> Other]),
      Obj([k \in {"models"} |->
              Obj([m \in {A, B} |-> IF m = A THEN Other
                                    ELSE UsageRec(1, 1, 0, 1)])]),
      Obj([k \in {"models"} |-> Obj([m \in {A} |-> UsageRec(2, 1, 1, 1)])]) }

ReduceFiles ==
    {WithHourly(Obj(h)) :
        h \in UNION {[K -> EntryShapes] : K \in SUBSET ReduceKeys}}

ReduceInit ==
    /\ file \in ReduceFiles
    /\ now = 0
    /\ exitCode = -1
    /\ base = file
    /\ acc = [x \in Cells |-> ZeroAcc]

ReduceNext == ReportAny

(***************************************************************************)
(* Properties of the report.                                               *)
(***************************************************************************)
HasSums == "sums" \in DOMAIN graph
Drawn == graph.status = "drawn"

\* sum of the segment lengths of the models emitted on one line
SegmentSum(bar) == SumFn([m \in DOMAIN bar.segs |-> bar.segs[m].seg], DOMAIN bar.segs)

\* C4: on every line of a drawn chart the segment lengths of the emitted
\* models sum to at most the bar length, and the three lengths of each
\* emitted segment sum to the segment length
C4_SegmentSum ==
    Drawn =>
        \A k \in DOMAIN graph.bars :
            LET bar == graph.bars[k]
            IN /\ SegmentSum(bar) <= bar.bar_len
               /\ \A m \in DOMAIN bar.segs :
                     bar.segs[m].out + bar.segs[m].inp + bar.segs[m].cached
                         = bar.segs[m].seg

\* C5: with prices, the accumulated input cost and total cost of every
\* (bucket, model) pair are never negative
C5_UncachedClamp ==
    (HasSums /\ graph.args.price) =>
        \A p \in DOMAIN graph.sums.costs :
            /\ graph.sums.costs[p].input >= 0
            /\ graph.sums.costs[p].total >= 0

\* every counter the reducer summed is non-negative
NonNegativeSums ==
    \A p \in DOMAIN graph.sums.buckets :
        /\ graph.sums.buckets[p].input >= 0
        /\ graph.sums.buckets[p].output >= 0
        /\ graph.sums.buckets[p].cached >= 0

\* C10: in token mode, on non-negative counters, no length of an emitted
\* segment is negative, the glyphs of a segment number its length and the
\* glyphs of a line number at most the width
C10_GlyphsWithinWidth ==
    (Drawn /\ ~graph.args.price /\ NonNegativeSums) =>
        \A k \in DOMAIN graph.bars :
            LET bar == graph.bars[k]
            IN /\ \A m \in DOMAIN bar.segs :
                     /\ bar.segs[m].out >= 0
                     /\ bar.segs[m].inp >= 0
                     /\ bar.segs[m].cached >= 0
                     /\ Repeat(bar.segs[m].out) + Repeat(bar.segs[m].inp)
                            + Repeat(bar.segs[m].cached) = bar.segs[m].seg
               /\ Glyphs(bar) <= Width

\* the hourly keys whose entry the reducer can use
GoodHours(h) ==
    {ts \in DOMAIN h.d :
        /\ ts.ok
        /\ IsDict(h.d[ts])
        /\ IsDict(Get(h.d[ts], "models", EmptyObj))}

\* the well-formed hourly records, as (hourly key, model) pairs, that the
\* filter lets through
GoodRecords(h, filter) ==
    UNION {{<<ts, m>> : m \in {x \in DOMAIN h.d[ts].d["models"].d :
                                  /\ IsDict(h.d[ts].d["models"].d[x])
                                  /\ (filter = <<>> \/ Search(filter, x))}} :
           ts \in GoodHours(h)}

\* the tokens of a well-formed record
RecordTokens(h, r) ==
    LET u == h.d[r[1]].d["models"].d[r[2]].d
    IN Tokens(u["input_tokens"].n, u["output_tokens"].n, u["cached_tokens"].n)

\* C7: on a store that mixes well-formed entries with the four kinds of
\* malformed ones the report does not raise, and the counters summed for
\* each (bucket, model) pair are the field-wise sums of the well-formed
\* records of that pair, and of nothing else
C7_MalformedResilience ==
    graph # NoGraph =>
        LET h == file.v.d["hourly"]
            recs == GoodRecords(h, graph.args.filter)
            PairOf(r) == <<BucketKey(r[1], graph.args.granularity), r[2]>>
            pairs == {PairOf(r) : r \in recs}
        IN /\ exitCode = 0
           /\ graph.status # "raised"
           /\ DOMAIN h.d # {} =>
                 /\ DOMAIN graph.sums.buckets = pairs
                 /\ \A p \in pairs :
                       LET R == {r \in recs : PairOf(r) = p}
                           Sum(fld) == SumFn([r \in R |-> RecordTokens(h, r)[fld]], R)
                       IN graph.sums.buckets[p] =
                             Tokens(Sum("input"), Sum("output"), Sum("cached"))

\* a report by day on a store with an unparsable key, an entry that is no
\* mapping and a model whose usage is no mapping, in which two well-formed
\* hours are summed into one pair
C7_Witness ==
    /\ Drawn
    /\ graph.args.granularity = "day"
    /\ LET h == file.v.d["hourly"]
       IN /\ DOMAIN h.d = ReduceKeys
          /\ ~IsDict(h.d[BadKey])
          /\ IsDict(h.d[Week]) /\ IsDict(h.d[Week].d["models"])
          /\ ~IsDict(h.d[Week].d["models"].d[A])
          /\ Cardinality({r \in GoodRecords(h, <<>>) : r[2] = A}) = 2
    /\ <<0, A>> \in DOMAIN graph.sums.buckets
    /\ graph.sums.buckets[<<0, A>>].input = 4

(***************************************************************************)
(* Concurrent invocations of the recorder.  Each process runs main() with  *)
(* --hook as the system calls it makes: the read of usage.json, the        *)
(* open of usage.json.tmp for writing (which creates the file, or          *)
(* truncates the one that is there), the writes of the payload, and        *)
(* os.replace.  A file name maps to an inode, an open file is an inode and *)
(* an offset, and what a process writes lands in the inode it opened.      *)
(* A payload is NChunks writes long; a document records a number of turns. *)
(***************************************************************************)
Procs == 1..NProcs
Path == "usage.json"
Tmp == "usage.json.tmp"
NoInode == 0

\* a part of the payload of process p, a document of n turns; Hole is what
\* a read returns for the bytes below an offset nothing was written at
Chunk(p, i, n) == [by |-> p, part |-> i, turns |-> n]
Hole == Chunk(0, 0, 0)
Payload(p, n) == [i \in 1..NChunks |-> Chunk(p, i, n)]

\* json.loads succeeds on the payloads of json.dumps, and on nothing shorter
Complete(c) ==
    /\ Len(c) = NChunks
    /\ c[1] # Hole
    /\ c = Payload(c[1].by, c[1].turns)

Unread == [t |-> "unread"]
Content(c) == [t |-> "content", c |-> c]

\* path.exists() and path.read_text()
ReadText(name) ==
    IF dir[name] = NoInode THEN Absent ELSE Content(inodes[dir[name]])

\* write(fd, chunk) at offset pos of an inode whose content is c
WriteAt(c, pos, chunk) ==
    [i \in 1..(IF Len(c) > pos THEN Len(c) ELSE pos + 1) |->
        IF i = pos + 1 THEN chunk
        ELSE IF i <= Len(c) THEN c[i] ELSE Hole]

Idle(n) == [pc |-> "idle", db |-> 0, fd |-> NoInode, pos |-> 0, runs |-> n, code |-> -1]

\* the process p after main() has returned code
Exit(p, code) == [Idle(procs[p].runs + 1) EXCEPT !.code = code]

ConcInit ==
    /\ dir = [name \in {Path, Tmp} |-> NoInode]
    /\ inodes = <<>>
    /\ procs = [p \in Procs |-> Idle(0)]
    /\ observed = Unread

\* _load_json and the changes in memory (lines 153-164): the document read
\* plus one turn, or the exception of json.loads
Load(p) ==
    /\ procs[p].pc = "idle"
    /\ procs[p].runs < MaxRuns
    /\ LET r == ReadText(Path)
       IN IF r = Absent
          THEN procs' = [procs EXCEPT ![p].pc = "open", ![p].db = 1]
          ELSE IF Complete(r.c)
          THEN procs' = [procs EXCEPT ![p].pc = "open", ![p].db = r.c[1].turns + 1]
          ELSE procs' = [procs EXCEPT ![p] = Exit(p, 1)]
    /\ UNCHANGED <<dir, inodes, observed>>
    /\ UNCHANGED notConc

\* tmp.write_text: open(tmp, "w")
OpenTmp(p) ==
    /\ procs[p].pc = "open"
    /\ IF dir[Tmp] = NoInode
       THEN /\ inodes' = Append(inodes, <<>>)
            /\ dir' = [dir EXCEPT ![Tmp] = Len(inodes) + 1]
       ELSE /\ inodes' = [inodes EXCEPT ![dir[Tmp]] = <<>>]
            /\ dir' = dir
    /\ procs' = [procs EXCEPT ![p].pc = "write", ![p].fd = dir'[Tmp], ![p].pos = 0]
    /\ UNCHANGED observed
    /\ UNCHANGED notConc

\* tmp.write_text: one write of the payload, and close after the last
WriteChunk(p) ==
    /\ procs[p].pc = "write"
    /\ LET me == procs[p]
       IN /\ inodes' = [inodes EXCEPT ![me.fd] =
                           WriteAt(@, me.pos, Chunk(p, me.pos + 1, me.db))]
          /\ procs' = [procs EXCEPT
                          ![p].pos = me.pos + 1,
                          ![p].pc = IF me.pos + 1 = NChunks THEN "replace" ELSE "write"]
    /\ UNCHANGED <<dir, observed>>
    /\ UNCHANGED notConc

\* os.replace(tmp, path): FileNotFoundError when tmp is gone
Replace(p) ==
    /\ procs[p].pc = "replace"
    /\ IF dir[Tmp] = NoInode
       THEN /\ dir' = dir
            /\ procs' = [procs EXCEPT ![p] = Exit(p, 1)]
       ELSE /\ dir' = [dir EXCEPT ![Path] = dir[Tmp], ![Tmp] = NoInode]
            /\ procs' = [procs EXCEPT ![p] = Exit(p, 0)]
    /\ UNCHANGED <<inodes, observed>>
    /\ UNCHANGED notConc

\* a reader: _load_json of an invocation that prints the graph
Read ==
    /\ observed' = ReadText(Path)
    /\ UNCHANGED <<dir, inodes, procs>>
    /\ UNCHANGED notConc

ConcNext ==
    \/ \E p \in Procs : Load(p)
    \/ \E p \in Procs : OpenTmp(p)
    \/ \E p \in Procs : WriteChunk(p)
    \/ \E p \in Procs : Replace(p)
    \/ Read

\* C2: the content at the store path is always absent or the complete
\* payload of one invocation, and a reader never reads anything else
C2_NoPartialDocument ==
    /\ ReadText(Path) # Absent => Complete(ReadText(Path).c)
    /\ observed.t = "content" => Complete(observed.c)

(***************************************************************************)
(* Specifications.                                                         *)
(***************************************************************************)
RecIdle ==
    /\ file = Absent
    /\ now = 0
    /\ exitCode = -1
    /\ base = Absent
    /\ acc = [x \in Cells |-> ZeroAcc]

GraphIdle == graph = NoGraph

ConcIdle == ConcInit

InitRecord == RecInit /\ HourIdle /\ PriceIdle /\ GraphIdle /\ ConcIdle
InitEmpty == EmptyInit /\ HourIdle /\ PriceIdle /\ GraphIdle /\ ConcIdle
InitHour == HourInit /\ RecIdle /\ PriceIdle /\ GraphIdle /\ ConcIdle
InitPrice == PriceInit /\ RecIdle /\ HourIdle /\ GraphIdle /\ ConcIdle
InitGraph == EmptyInit /\ HourIdle /\ PricedIdle /\ GraphIdle /\ ConcIdle
InitReduce == ReduceInit /\ HourIdle /\ PricedIdle /\ GraphIdle /\ ConcIdle
InitConc == ConcInit /\ RecIdle /\ HourIdle /\ PriceIdle /\ GraphIdle

SpecRecord == InitRecord /\ [][RecNext]_vars
SpecEmpty == InitEmpty /\ [][RecNext]_vars
SpecHour == InitHour /\ [][HourNext]_vars
SpecPrice == InitPrice /\ [][PriceNext]_vars
SpecGraph == InitGraph /\ [][GraphNext]_vars
SpecReduce == InitReduce /\ [][ReduceNext]_vars
SpecConc == InitConc /\ [][ConcNext]_vars

====
